---------------------------- MODULE Spec2Model ----------------------------
(***************************************************************************)
(* A model of script.py: list_cs_files enumerates the .cs files of a       *)
(* directory, submits one process_file task per file to a thread pool,     *)
(* waits for all of them and prints the two counters of `results`.         *)
(*                                                                         *)
(* File content is a sequence of lexical tokens:                           *)
(*   "S" = `/// <summary>`   "E" = `/// </summary>`   "D" = `/// text`     *)
(*   "I" = `/// text` as rewritten by the remote service                   *)
(*   "n" = a newline         "c" = a piece of code                         *)
(* Offsets (match.start(), match.end(), last_index) count tokens.          *)
(***************************************************************************)
EXTENDS Integers, Sequences, FiniteSets

\* ------------------------------------------------------------- bounds

\* The largest worker count a run is started with (sys.argv[2]).
MaxWorkers == 2

\* How many calls of one run may hang or end in an error (file I/O, remote
\* call, formatter): the faults injected into one run.
MaxFaults == 1

\* ------------------------------------------------------------- inputs

\* The directory tree under <baseDirectory>: a file has a name, the depth of
\* the directory holding it (0 = the base directory itself) and is a regular
\* file or a directory.
Tree ==
    { [name |-> "A.cs",        depth |-> 0, isfile |-> TRUE],
      [name |-> "B.cs",        depth |-> 0, isfile |-> TRUE],
      [name |-> "notes.txt",   depth |-> 0, isfile |-> TRUE],
      [name |-> "C",           depth |-> 0, isfile |-> FALSE],
      [name |-> "C/nested.cs", depth |-> 1, isfile |-> TRUE] }

\* file.endswith('.cs')
EndsWithCs(f) == f \in { "A.cs", "B.cs", "C/nested.cs" }

\* The contents a file may hold when the run starts.
NoComment   == << "c", "n" >>
EmptyDoc    == << "S", "n", "E", "n", "c", "n" >>
OneDoc      == << "c", "n", "S", "n", "D", "n", "E", "n", "D", "n", "c", "n" >>
TwoDocs     == << "S", "n", "D", "n", "E", "n", "c", "n",
                  "S", "n", "D", "n", "E", "n", "c", "n" >>

Contents == { NoComment, EmptyDoc, OneDoc, TwoDocs }

\* The trees a run is started on, as the content of each file: the tree of
\* the specification's scenario (A with two blocks, B with none, the nested
\* file with one), a tree with two commented files in the base directory,
\* and a tree in which no file holds a block the pattern matches.
Layouts ==
    { [ f \in { "A.cs", "B.cs", "notes.txt", "C/nested.cs" } |->
          CASE f = "A.cs"        -> TwoDocs
            [] f = "B.cs"        -> NoComment
            [] f = "C/nested.cs" -> OneDoc
            [] OTHER             -> OneDoc ],
      [ f \in { "A.cs", "B.cs", "notes.txt", "C/nested.cs" } |->
          CASE f = "A.cs"        -> OneDoc
            [] f = "B.cs"        -> OneDoc
            [] f = "C/nested.cs" -> EmptyDoc
            [] OTHER             -> OneDoc ],
      [ f \in { "A.cs", "B.cs", "notes.txt", "C/nested.cs" } |->
          CASE f = "A.cs"        -> EmptyDoc
            [] f = "B.cs"        -> NoComment
            [] f = "C/nested.cs" -> NoComment
            [] OTHER             -> OneDoc ] }

\* What the remote service may answer: an improved block, or nothing at all
\* (the completion is taken verbatim, empty or not).
Replies == { << "S", "n", "I", "n", "E" >>, << >> }

\* ------------------------------------------------- the comment pattern

\* Tokens that start with `///`.
IsSlashes(t) == t \in { "S", "E", "D", "I" }

\* \s* : the offset after the whitespace that starts at p (0-based).
RECURSIVE SkipWs(_, _)
SkipWs(c, p) == IF p < Len(c) /\ c[p + 1] = "n" THEN SkipWs(c, p + 1) ELSE p

\* (?:\s*///.*?)*(?=\s*\n) from offset p: the offset where the match ends,
\* or -1. The group is greedy (another `\s*///` is tried first), `.*?` is
\* lazy (the shortest extension after which the rest matches), and only
\* then is the lookahead tried at p itself.
RECURSIVE TailFrom(_, _)
RECURSIVE TailLazy(_, _)
TailLazy(c, e) ==
    IF e > Len(c) THEN -1
    ELSE LET r == TailFrom(c, e)
         IN  IF r >= 0 THEN r ELSE TailLazy(c, e + 1)

TailFrom(c, p) ==
    LET q    == SkipWs(c, p)
        more == IF q < Len(c) /\ IsSlashes(c[q + 1]) THEN TailLazy(c, q + 1) ELSE -1
    IN  IF more >= 0 THEN more
        ELSE IF p < Len(c) /\ c[p + 1] = "n" THEN p ELSE -1

\* `///.*?\s*/// <\/summary>` then the tail: e runs over the offsets where
\* the lazy `.*?` may stop, shortest first.
RECURSIVE HeadLazy(_, _)
HeadLazy(c, e) ==
    IF e > Len(c) THEN -1
    ELSE LET e2 == SkipWs(c, e)
             r  == IF e2 < Len(c) /\ c[e2 + 1] = "E" THEN TailFrom(c, e2 + 1) ELSE -1
         IN  IF r >= 0 THEN r ELSE HeadLazy(c, e + 1)

\* The pattern tried at offset s: the end of the match, or -1.
MatchAt(c, s) ==
    IF s < Len(c) /\ c[s + 1] = "S"
    THEN LET q == SkipWs(c, s + 1)
         IN  IF q < Len(c) /\ IsSlashes(c[q + 1]) THEN HeadLazy(c, q + 1) ELSE -1
    ELSE -1

\* list(comment_pattern.finditer(content)): the matches left to right, each
\* search resuming where the previous match ended.
RECURSIVE FindFrom(_, _)
FindFrom(c, pos) ==
    IF pos >= Len(c) THEN << >>
    ELSE LET r == MatchAt(c, pos)
         IN  IF r >= 0
             THEN << [start |-> pos, end |-> r] >> \o FindFrom(c, r)
             ELSE FindFrom(c, pos + 1)

finditer(c) == FindFrom(c, 0)

\* The matches of each content a file may hold when it is read, computed
\* once: a file is read before it is written, and once in a run.
Matches == [ c \in Contents |-> finditer(c) ]

\* content[i:j] of Python, 0-based and half open.
Slice(c, i, j) == SubSeq(c, i + 1, j)


\* -------------------------------------------------------------- state

VARIABLES
    dir_exists,             \* os.path.isdir(directory)
    include_subdirectories, \* sys.argv[3].lower() == 'true'
    max_workers,            \* int(sys.argv[2])
    orig,                   \* the files' content when the run starts
    disk,                   \* the files' content now
    main_pc,                \* where list_cs_files is
    files_to_process,       \* the list list_cs_files builds
    submitted,              \* how many futures executor.submit has made
    results,                \* the dict shared by all tasks
    task,                   \* the locals of each file's process_file call
    hist,                   \* what each file's task has done so far
    reported,               \* the summary lines printed so far
    faults                  \* how many calls have hung or failed so far

vars == << dir_exists, include_subdirectories, max_workers, orig, disk, main_pc,
           files_to_process, submitted, results, task, hist, reported, faults >>

Files == { e.name : e \in { x \in Tree : x.isfile } }

\* A task that has not read its file yet, and one that has returned: the
\* locals of process_file exist only while it runs.
NoLocals(pc) ==
    [ pc |-> pc, content |-> << >>, matches |-> << >>, idx |-> 0,
      new_content |-> << >>, last_index |-> 0, reg |-> 0 ]

NoHist ==
    [ calls |-> 0, replies |-> << >>, opens |-> 0, writes |-> 0, fmt |-> "none",
      mod_incs |-> 0, proc_incs |-> 0, err |-> "none", future |-> "pending" ]

\* The state when list_cs_files is called. The worker count is at least 1:
\* ThreadPoolExecutor raises ValueError for a smaller one.
Init ==
    /\ dir_exists \in BOOLEAN
    /\ include_subdirectories \in BOOLEAN
    /\ max_workers \in 1 .. MaxWorkers
    /\ orig \in Layouts
    /\ disk = orig
    /\ main_pc = "start"
    /\ files_to_process = << >>
    /\ submitted = 0
    /\ results = [ processed_files |-> 0, modified_files |-> 0 ]
    /\ task = [ f \in Files |-> NoLocals("new") ]
    /\ hist = [ f \in Files |-> NoHist ]
    /\ reported = << >>
    /\ faults = 0

\* ------------------------------------------------------ list_cs_files

\* The files the walk finds: os.walk visits every directory, os.listdir
\* only the base directory, where entries that are not files are dropped.
Eligible ==
    IF include_subdirectories
    THEN { e.name : e \in { x \in Tree : x.isfile /\ EndsWithCs(x.name) } }
    ELSE { e.name : e \in { x \in Tree : x.depth = 0 /\ x.isfile /\ EndsWithCs(x.name) } }

Depth(f) == (CHOOSE e \in Tree : e.name = f).depth

\* The orders in which the walk may append the names S: a directory is
\* listed in any order, and os.walk is top-down, so that the files of a
\* directory come before those of the directories below it.
Orders(S) ==
    { s \in [ 1 .. Cardinality(S) -> S ] :
        /\ \A i, j \in DOMAIN s : i # j => s[i] # s[j]
        /\ \A i, j \in DOMAIN s : i < j => Depth(s[i]) <= Depth(s[j]) }

\* if not os.path.isdir(directory): print(...); return
CheckDir ==
    /\ main_pc = "start"
    /\ main_pc' = IF dir_exists THEN "walk" ELSE "returned"
    /\ UNCHANGED << dir_exists, include_subdirectories, max_workers, orig, disk,
                    files_to_process, submitted, results, task, hist, reported, faults >>

\* The walk, and the creation of the pool.
Walk ==
    /\ main_pc = "walk"
    /\ \E order \in Orders(Eligible) : files_to_process' = order
    /\ main_pc' = "submit"
    /\ UNCHANGED << dir_exists, include_subdirectories, max_workers, orig, disk,
                    submitted, results, task, hist, reported, faults >>

\* executor.submit(process_file, file_path, results), one file per step.
Submit ==
    /\ main_pc = "submit"
    /\ submitted < Len(files_to_process)
    /\ submitted' = submitted + 1
    /\ task' = [ task EXCEPT ![files_to_process[submitted + 1]].pc = "queued" ]
    /\ UNCHANGED << dir_exists, include_subdirectories, max_workers, orig, disk,
                    main_pc, files_to_process, results, hist, reported, faults >>

\* The list of futures is complete: concurrent.futures.wait(futures) begins.
BeginWait ==
    /\ main_pc = "submit"
    /\ submitted = Len(files_to_process)
    /\ main_pc' = "wait"
    /\ UNCHANGED << dir_exists, include_subdirectories, max_workers, orig, disk,
                    files_to_process, submitted, results, task, hist, reported, faults >>

\* A slip: the pool is left without waiting for the futures.
FutureDoneUnawaited(f) == TRUE

\* A future is done when its task has returned or raised.
FutureDone(f) == hist[f].future # "pending"

\* wait(futures) returns, and the `with` block shuts the pool down.
EndWait ==
    /\ main_pc = "wait"
    /\ \A i \in 1 .. Len(files_to_process) : FutureDone(files_to_process[i])
    /\ main_pc' = "report"
    /\ UNCHANGED << dir_exists, include_subdirectories, max_workers, orig, disk,
                    files_to_process, submitted, results, task, hist, reported, faults >>

\* print("Total modified files: {} / {}".format(...))
Report ==
    /\ main_pc = "report"
    /\ reported' = Append(reported, [ modified  |-> results.modified_files,
                                       processed |-> results.processed_files ])
    /\ main_pc' = "done"
    /\ UNCHANGED << dir_exists, include_subdirectories, max_workers, orig, disk,
                    files_to_process, submitted, results, task, hist, faults >>


\* ------------------------------------------------------- the thread pool

\* The tasks a worker thread is running: a thread runs one work item at a
\* time and stays with it until process_file returns.
Running == { f \in Files : task[f].pc \notin { "new", "queued", "done" } }

\* The work queue is first in, first out: the next item a free thread takes
\* is the earliest submitted one that no thread has taken.
IsQueueHead(f) ==
    \E i \in 1 .. submitted :
        /\ files_to_process[i] = f
        /\ task[f].pc = "queued"
        /\ \A j \in 1 .. i - 1 : task[files_to_process[j]].pc # "queued"

\* A slip: the pool is built without max_workers and runs one thread.
SlotFreeOfOne == Cardinality(Running) < 1

\* ThreadPoolExecutor(max_workers=max_workers): at most max_workers threads.
SlotFree == Cardinality(Running) < max_workers

\* A thread of the pool takes the task of file f.
Start(f) ==
    /\ IsQueueHead(f)
    /\ SlotFree
    /\ task' = [ task EXCEPT ![f].pc = "open" ]
    /\ UNCHANGED << dir_exists, include_subdirectories, max_workers, orig, disk,
                    main_pc, files_to_process, submitted, results, hist, reported, faults >>

\* -------------------------------------------------------- process_file

\* except Exception as e: print(...) -- the task returns None.
Caught(f, what) ==
    /\ task' = [ task EXCEPT ![f] = NoLocals("done") ]
    /\ hist' = [ hist EXCEPT ![f].err = what, ![f].future = "returned" ]

\* A slip: the early return is missing.
NoMatchesIgnored(matches) == FALSE

\* if not matches
NoMatches(matches) == matches = << >>

\* open(file_path, 'r') and file.read(), finditer, `if not matches: return`,
\* and the two assignments before the loop. A loop over no match at all
\* would fall through to the write.
ReadFile(f) ==
    /\ task[f].pc = "open"
    /\ LET content == disk[f]
           matches == Matches[content]
       IN  IF NoMatches(matches)
           THEN /\ task' = [ task EXCEPT ![f] = NoLocals("done") ]
                /\ hist' = [ hist EXCEPT ![f].future = "returned" ]
           ELSE /\ task' = [ task EXCEPT ![f] =
                        [ pc |-> IF Len(matches) = 0 THEN "write" ELSE "call",
                          content |-> content, matches |-> matches, idx |-> 0,
                          new_content |-> << >>, last_index |-> 0, reg |-> 0 ] ]
                /\ hist' = hist
    /\ UNCHANGED << dir_exists, include_subdirectories, max_workers, orig, disk,
                    main_pc, files_to_process, submitted, results, reported, faults >>

\* The file cannot be opened or decoded.
ReadFail(f) ==
    /\ task[f].pc = "open"
    /\ Caught(f, "read")
    /\ faults < MaxFaults
    /\ faults' = faults + 1
    /\ UNCHANGED << dir_exists, include_subdirectories, max_workers, orig, disk,
                    main_pc, files_to_process, submitted, results, reported >>

\* new_content += content[last_index:match.start()] + improved_comment
Spliced(new_content, content, last_index, match, improved_comment) ==
    new_content \o Slice(content, last_index, match.start) \o improved_comment

\* A slip: last_index = match.start(), so that the original block follows
\* its replacement.
NextIndexAtStart(match) == match.start

\* last_index = match.end()
NextIndex(match) == match.end

\* One turn of the loop over matches whose call of improve_comments returns.
ImproveReturn(f) ==
    /\ task[f].pc = "call"
    /\ \E improved_comment \in Replies :
        LET t     == task[f]
            match == t.matches[t.idx + 1]
        IN  /\ task' = [ task EXCEPT ![f] =
                    [ t EXCEPT
                        !.new_content = Spliced(t.new_content, t.content, t.last_index,
                                                match, improved_comment),
                        !.last_index = NextIndex(match),
                        !.idx = t.idx + 1,
                        !.pc = IF t.idx + 1 = Len(t.matches) THEN "write" ELSE "call" ] ]
            /\ hist' = [ hist EXCEPT ![f].calls = @ + 1,
                                     ![f].replies = Append(@, improved_comment) ]
    /\ UNCHANGED << dir_exists, include_subdirectories, max_workers, orig, disk,
                    main_pc, files_to_process, submitted, results, reported, faults >>

\* A slip: the file is rewritten as the loop goes, so that a failure leaves
\* the part spliced so far in the file.
RemoteRaisedAfterWrite(f) ==
    /\ task' = [ task EXCEPT ![f] = NoLocals("done") ]
    /\ hist' = [ hist EXCEPT ![f].calls = @ + 1, ![f].err = "remote",
                             ![f].future = "returned" ]
    /\ disk' = [ disk EXCEPT ![f] = task[f].new_content ]

\* What the task does when the call raises: the exception leaves the loop
\* and reaches the handler of process_file.
RemoteRaised(f) ==
    /\ task' = [ task EXCEPT ![f] = NoLocals("done") ]
    /\ hist' = [ hist EXCEPT ![f].calls = @ + 1, ![f].err = "remote",
                             ![f].future = "returned" ]
    /\ disk' = disk

\* openai.chat.completions.create raises (network, authentication, a
\* response without choices).
ImproveFail(f) ==
    /\ task[f].pc = "call"
    /\ RemoteRaised(f)
    /\ faults < MaxFaults
    /\ faults' = faults + 1
    /\ UNCHANGED << dir_exists, include_subdirectories, max_workers, orig,
                    main_pc, files_to_process, submitted, results, reported >>

\* The call never returns: no timeout is set.
ImproveHang(f) ==
    /\ task[f].pc = "call"
    /\ task' = [ task EXCEPT ![f].pc = "hung" ]
    /\ hist' = [ hist EXCEPT ![f].calls = @ + 1 ]
    /\ faults < MaxFaults
    /\ faults' = faults + 1
    /\ UNCHANGED << dir_exists, include_subdirectories, max_workers, orig, disk,
                    main_pc, files_to_process, submitted, results, reported >>

\* new_content += content[last_index:]
WithRest(new_content, content, last_index) ==
    new_content \o Slice(content, last_index, Len(content))

\* open(file_path, 'w') and file.write(new_content).
WriteFile(f) ==
    /\ task[f].pc = "write"
    /\ disk' = [ disk EXCEPT ![f] =
                    WithRest(task[f].new_content, task[f].content, task[f].last_index) ]
    /\ task' = [ task EXCEPT ![f].pc = "mod_load" ]
    /\ hist' = [ hist EXCEPT ![f].opens = @ + 1, ![f].writes = @ + 1 ]
    /\ UNCHANGED << dir_exists, include_subdirectories, max_workers, orig,
                    main_pc, files_to_process, submitted, results, reported, faults >>

\* open(file_path, 'w') raises: the file is as it was.
OpenForWriteFail(f) ==
    /\ task[f].pc = "write"
    /\ Caught(f, "open")
    /\ faults < MaxFaults
    /\ faults' = faults + 1
    /\ UNCHANGED << dir_exists, include_subdirectories, max_workers, orig, disk,
                    main_pc, files_to_process, submitted, results, reported >>

\* file.write raises (the text cannot be encoded, the disk is full): open
\* has truncated the file already.
WriteFail(f) ==
    /\ task[f].pc = "write"
    /\ disk' = [ disk EXCEPT ![f] = << >> ]
    /\ task' = [ task EXCEPT ![f] = NoLocals("done") ]
    /\ hist' = [ hist EXCEPT ![f].opens = @ + 1, ![f].err = "write",
                             ![f].future = "returned" ]
    /\ faults < MaxFaults
    /\ faults' = faults + 1
    /\ UNCHANGED << dir_exists, include_subdirectories, max_workers, orig,
                    main_pc, files_to_process, submitted, results, reported >>

\* results[key] += 1 is a load of results[key], an addition and a store;
\* another thread may run between the load and the store.
Incremented(reg) == reg + 1

\* results['modified_files'] += 1, the load.
ModLoad(f) ==
    /\ task[f].pc = "mod_load"
    /\ task' = [ task EXCEPT ![f].reg = results.modified_files, ![f].pc = "mod_store" ]
    /\ UNCHANGED << dir_exists, include_subdirectories, max_workers, orig, disk,
                    main_pc, files_to_process, submitted, results, hist, reported, faults >>

\* results['modified_files'] += 1, the store.
ModStore(f) ==
    /\ task[f].pc = "mod_store"
    /\ results' = [ results EXCEPT !.modified_files = Incremented(task[f].reg) ]
    /\ task' = [ task EXCEPT ![f].reg = 0, ![f].pc = "format" ]
    /\ hist' = [ hist EXCEPT ![f].mod_incs = @ + 1 ]
    /\ UNCHANGED << dir_exists, include_subdirectories, max_workers, orig, disk,
                    main_pc, files_to_process, submitted, reported, faults >>

\* subprocess.run(['dotnet-format', ...], check=True) exits with status 0.
\* What the formatter does to the file is not modelled: disk is what this
\* program wrote.
FormatOk(f) ==
    /\ task[f].pc = "format"
    /\ task' = [ task EXCEPT ![f].pc = "proc_load" ]
    /\ hist' = [ hist EXCEPT ![f].fmt = "ok" ]
    /\ UNCHANGED << dir_exists, include_subdirectories, max_workers, orig, disk,
                    main_pc, files_to_process, submitted, results, reported, faults >>

\* A slip: no handler around subprocess.run, so that the error reaches the
\* handler of process_file and the rest of the task is skipped.
FormatExitedUncaught(f) ==
    /\ task' = [ task EXCEPT ![f] = NoLocals("done") ]
    /\ hist' = [ hist EXCEPT ![f].fmt = "exit", ![f].err = "format",
                             ![f].future = "returned" ]
    /\ disk' = disk

\* What the task does on subprocess.CalledProcessError: two prints, then on.
FormatExited(f) ==
    /\ task' = [ task EXCEPT ![f].pc = "proc_load" ]
    /\ hist' = [ hist EXCEPT ![f].fmt = "exit" ]
    /\ disk' = disk

\* The formatter exits with a status other than 0.
FormatExit(f) ==
    /\ task[f].pc = "format"
    /\ FormatExited(f)
    /\ faults < MaxFaults
    /\ faults' = faults + 1
    /\ UNCHANGED << dir_exists, include_subdirectories, max_workers, orig,
                    main_pc, files_to_process, submitted, results, reported >>

\* subprocess.run raises something else (dotnet-format is not installed:
\* FileNotFoundError), which only the handler of process_file catches.
FormatRaise(f) ==
    /\ task[f].pc = "format"
    /\ task' = [ task EXCEPT ![f] = NoLocals("done") ]
    /\ hist' = [ hist EXCEPT ![f].fmt = "raise", ![f].err = "format",
                             ![f].future = "returned" ]
    /\ faults < MaxFaults
    /\ faults' = faults + 1
    /\ UNCHANGED << dir_exists, include_subdirectories, max_workers, orig, disk,
                    main_pc, files_to_process, submitted, results, reported >>

\* The formatter never exits: no timeout is set.
FormatHang(f) ==
    /\ task[f].pc = "format"
    /\ task' = [ task EXCEPT ![f].pc = "hung" ]
    /\ hist' = [ hist EXCEPT ![f].fmt = "hang" ]
    /\ faults < MaxFaults
    /\ faults' = faults + 1
    /\ UNCHANGED << dir_exists, include_subdirectories, max_workers, orig, disk,
                    main_pc, files_to_process, submitted, results, reported >>

\* results['processed_files'] += 1, the load.
ProcLoad(f) ==
    /\ task[f].pc = "proc_load"
    /\ task' = [ task EXCEPT ![f].reg = results.processed_files, ![f].pc = "proc_store" ]
    /\ UNCHANGED << dir_exists, include_subdirectories, max_workers, orig, disk,
                    main_pc, files_to_process, submitted, results, hist, reported, faults >>

\* results['processed_files'] += 1, the store, and the return.
ProcStore(f) ==
    /\ task[f].pc = "proc_store"
    /\ results' = [ results EXCEPT !.processed_files = Incremented(task[f].reg) ]
    /\ task' = [ task EXCEPT ![f] = NoLocals("done") ]
    /\ hist' = [ hist EXCEPT ![f].proc_incs = @ + 1, ![f].future = "returned" ]
    /\ UNCHANGED << dir_exists, include_subdirectories, max_workers, orig, disk,
                    main_pc, files_to_process, submitted, reported, faults >>

\* ------------------------------------------------------ specification

Next ==
    \/ CheckDir
    \/ Walk
    \/ Submit
    \/ BeginWait
    \/ EndWait
    \/ Report
    \/ \E f \in Files : Start(f)
    \/ \E f \in Files : ReadFile(f)
    \/ \E f \in Files : ReadFail(f)
    \/ \E f \in Files : ImproveReturn(f)
    \/ \E f \in Files : ImproveFail(f)
    \/ \E f \in Files : ImproveHang(f)
    \/ \E f \in Files : WriteFile(f)
    \/ \E f \in Files : OpenForWriteFail(f)
    \/ \E f \in Files : WriteFail(f)
    \/ \E f \in Files : ModLoad(f)
    \/ \E f \in Files : ModStore(f)
    \/ \E f \in Files : FormatOk(f)
    \/ \E f \in Files : FormatExit(f)
    \/ \E f \in Files : FormatRaise(f)
    \/ \E f \in Files : FormatHang(f)
    \/ \E f \in Files : ProcLoad(f)
    \/ \E f \in Files : ProcStore(f)

Spec == Init /\ [][Next]_vars

\* The steps of list_cs_files, and those of the thread that runs file f.
MainStep == CheckDir \/ Walk \/ Submit \/ BeginWait \/ EndWait \/ Report

TaskStep(f) ==
    \/ Start(f) \/ ReadFile(f) \/ ReadFail(f)
    \/ ImproveReturn(f) \/ ImproveFail(f) \/ ImproveHang(f)
    \/ WriteFile(f) \/ OpenForWriteFail(f) \/ WriteFail(f)
    \/ ModLoad(f) \/ ModStore(f)
    \/ FormatOk(f) \/ FormatExit(f) \/ FormatRaise(f) \/ FormatHang(f)
    \/ ProcLoad(f) \/ ProcStore(f)

\* A thread that can take a step takes one in the end: the main thread and
\* the pool's threads are scheduled by the operating system, and a call
\* that is under way returns, raises or is one of those that hang.
FairSpec ==
    /\ Init /\ [][Next]_vars
    /\ WF_vars(MainStep)
    /\ \A f \in Files : WF_vars(TaskStep(f))


\* ------------------------------------------------------------- claims

\* The matches of file f's content as the run found it.
SpansOf(f) == Matches[orig[f]]

\* The text of c outside the matches ms: before the first one (i = 0),
\* between the i-th and the next, after the last one (i = Len(ms)).
Gap(c, ms, i) ==
    Slice(c, IF i = 0 THEN 0 ELSE ms[i].end,
             IF i = Len(ms) THEN Len(c) ELSE ms[i + 1].start)

\* r_i + gap_i + r_(i+1) + ... + r_N + suffix
RECURSIVE Interleaved(_, _, _, _)
Interleaved(c, ms, rs, i) ==
    IF i > Len(ms) THEN << >>
    ELSE rs[i] \o Gap(c, ms, i) \o Interleaved(c, ms, rs, i + 1)

\* prefix + r_1 + gap_1 + ... + r_N + suffix
Expected(c, ms, rs) == Gap(c, ms, 0) \o Interleaved(c, ms, rs, 1)

Hung == { f \in Files : task[f].pc = "hung" }

Submitted == { files_to_process[i] : i \in 1 .. submitted }

WithSpans(S) == { f \in S : Len(SpansOf(f)) >= 1 }

\* C1: the content process_file writes for a file with N >= 1 matches is the
\* original text outside the matches interleaved, in order, with the N
\* replies of the remote service, whatever the other tasks do.
C1_SpliceInOrder ==
    \A f \in Files :
        hist[f].writes >= 1 =>
            /\ Len(SpansOf(f)) >= 1
            /\ Len(hist[f].replies) = Len(SpansOf(f))
            /\ disk[f] = Expected(orig[f], SpansOf(f), hist[f].replies)

\* A file with two matches has been written with two different replies
\* while, under two workers, another file's task was in its own loop.
C1_Witness ==
    \E f \in Files, g \in Files :
        /\ f # g
        /\ max_workers = 2
        /\ hist[f].writes = 1
        /\ Len(SpansOf(f)) = 2
        /\ hist[f].replies[1] # hist[f].replies[2]
        /\ task[f].pc = "mod_load"
        /\ task[g].pc = "call"

\* C2: when the remote call fails for a match of a file, the first or a
\* later one, the task never opens the file for writing (its content is the
\* input's), never runs the formatter, and returns without raising.
C2_RemoteFailureLeavesFile ==
    \A f \in Files :
        hist[f].err = "remote" =>
            /\ disk[f] = orig[f]
            /\ hist[f].opens = 0
            /\ hist[f].writes = 0
            /\ hist[f].fmt = "none"
            /\ hist[f].future = "returned"

\* The call for the second match of a file failed after the first succeeded.
C2_Witness ==
    \E f \in Files :
        /\ hist[f].err = "remote"
        /\ Len(SpansOf(f)) = 2
        /\ hist[f].calls = 2
        /\ Len(hist[f].replies) = 1

\* The one fault of the run is a remote failure in file f's task.
OnlyRemoteFailureIn(f) ==
    /\ hist[f].err = "remote"
    /\ \A g \in Files \ { f } :
        /\ hist[g].err = "none"
        /\ hist[g].fmt \in { "none", "ok" }
        /\ task[g].pc # "hung"

\* C3: a remote failure in one file's task does not keep the other eligible
\* files from being processed and counted: each of them runs to completion
\* and adds to the processed count, and to the modified count if it holds a
\* match, and the summary is printed.
C3_SiblingsCounted ==
    \A f \in Files :
        (main_pc = "done" /\ OnlyRemoteFailureIn(f)) =>
            /\ \A g \in Eligible \ { f } : FutureDone(g)
            /\ reported[1].processed = Cardinality(Eligible \ { f })
            /\ reported[1].modified = Cardinality(WithSpans(Eligible \ { f }))

\* C4: no increment of a shared counter is lost: in the end each counter is
\* the number of tasks that executed its increment.
C4_NoLostIncrement ==
    main_pc = "done" =>
        /\ results.modified_files = Cardinality({ f \in Files : hist[f].mod_incs = 1 })
        /\ results.processed_files = Cardinality({ f \in Files : hist[f].proc_incs = 1 })

\* C5: whatever fails in the tasks, the summary's counters satisfy
\* modified <= processed <= number of eligible files.
C5_CountersOrdered ==
    main_pc = "done" =>
        /\ reported[1].modified <= reported[1].processed
        /\ reported[1].processed <= Len(files_to_process)

\* C6: in a run without a fault the processed count is the number of
\* eligible files of the chosen mode, those without a match included, the
\* modified count is the number of those that hold a match, and without
\* recursion the nested file is neither read nor written.
C6_CountsAreFileCounts ==
    (main_pc = "done" /\ faults = 0) =>
        /\ reported[1].processed = Cardinality(Eligible)
        /\ reported[1].modified = Cardinality(WithSpans(Eligible))
        /\ ~include_subdirectories =>
              /\ task["C/nested.cs"].pc = "new"
              /\ disk["C/nested.cs"] = orig["C/nested.cs"]

\* C7: the task of a file without a match makes no remote call, never
\* opens the file for writing (its content is the input's), does not run
\* the formatter and does not increment the modified counter.
C7_NoSpansNoEffect ==
    \A f \in Files :
        SpansOf(f) = << >> =>
            /\ hist[f].calls = 0
            /\ hist[f].opens = 0
            /\ disk[f] = orig[f]
            /\ hist[f].fmt = "none"
            /\ hist[f].mod_incs = 0

\* The task of a file that holds a comment block the pattern does not match
\* (a summary without a line of text) has run and returned.
C7_Witness ==
    \E f \in Files :
        /\ orig[f] = EmptyDoc
        /\ SpansOf(f) = << >>
        /\ hist[f].future = "returned"
        /\ hist[f].err = "none"

\* C8: the summary is printed only when every submitted task has finished,
\* and with the final counters; and unless a call hangs, a run over an
\* existing directory prints it in the end.
C8_ReportAfterAllTasks ==
    /\ [](reported # << >> =>
            /\ submitted = Len(files_to_process)
            /\ \A f \in Submitted : FutureDone(f) /\ task[f].pc = "done"
            /\ Len(reported) = 1
            /\ reported[1].modified = results.modified_files
            /\ reported[1].processed = results.processed_files)
    /\ <>(reported # << >> \/ Hung # {} \/ ~dir_exists)

\* The summary has been printed after two tasks ran side by side to their
\* last statement.
C8_Witness ==
    /\ reported # << >>
    /\ max_workers = 2
    /\ Cardinality({ f \in Files : hist[f].proc_incs = 1 }) >= 2

\* C9 as stated: for every worker count, once a file's call hangs, every
\* other submitted task is picked up and runs to completion in the end.
C9_HangNeverStallsOthers ==
    \A f \in Files :
        [](task[f].pc = "hung" =>
             <>(\A g \in Submitted \ Hung : task[g].pc = "done"))

\* C9 as amended: as long as fewer calls hang than the pool has threads,
\* every task that does not hang itself is picked up and runs to completion.
C9_HangStallsOneSlot ==
    <>[](Cardinality(Hung) < max_workers =>
            /\ (dir_exists => submitted = Cardinality(Eligible))
            /\ \A g \in Submitted \ Hung : task[g].pc = "done")

\* Under two workers one task hangs in its remote call and the two other
\* files' tasks have run to completion.
C9_Witness ==
    /\ max_workers = 2
    /\ \E f \in Files : task[f].pc = "hung" /\ hist[f].fmt = "none"
    /\ Cardinality(Hung) = 1
    /\ Cardinality({ g \in Submitted : task[g].pc = "done" }) = 2

\* C10: when the formatter exits with a status other than 0 the task goes
\* on to its normal end: the rewritten content stays in the file, the task
\* has incremented the modified counter once and increments the processed
\* counter, and the other tasks go on: unless a call hangs, all finish.
C10_FormatFailureGoesOn ==
    /\ [](\A f \in Files :
            hist[f].fmt = "exit" =>
                /\ disk[f] = Expected(orig[f], SpansOf(f), hist[f].replies)
                /\ hist[f].writes = 1
                /\ hist[f].mod_incs = 1
                /\ hist[f].err = "none"
                /\ task[f].pc \in { "proc_load", "proc_store", "done" }
                /\ task[f].pc = "done" => hist[f].proc_incs = 1)
    /\ (\E f \in Files : hist[f].fmt = "exit")
          ~> (Hung # {} \/ \A g \in Eligible : hist[g].future = "returned")

\* The formatter failed for a file whose task has since returned, while
\* another file's task was still at work.
C10_Witness ==
    \E f \in Files, g \in Files :
        /\ hist[f].fmt = "exit"
        /\ hist[f].future = "returned"
        /\ hist[f].proc_incs = 1
        /\ task[g].pc \in { "call", "write", "format" }

=============================================================================
